---- MODULE Spec2Model ----
(***************************************************************************)
(* Model of lms/djangoapps/instructor/views/api.py: the instructor         *)
(* dashboard API views.                                                    *)
(*                                                                         *)
(* Python strings whose contents the code inspects (the emails text area,  *)
(* course ids, problem urlnames) are sequences of one-character strings.   *)
(* Parameter names, enum values and messages are TLA+ strings.             *)
(*                                                                         *)
(* Specifications:                                                         *)
(*   SpecSplit   _split_input_list on bounded input strings                *)
(*   SpecMsk     _msk_from_problem_urlname on bounded inputs               *)
(*   SpecParams  require_query_params around a recording handler           *)
(*   Spec        one request to a handler; students_update_enrollment      *)
(*               takes one step per email                                  *)
(***************************************************************************)
EXTENDS Integers, Sequences, FiniteSets, TLC

VARIABLES
    str_list, new_list,                         \* _split_input_list
    course_id, urlname, module_state_key,       \* _msk_from_problem_urlname
    required_params, declared, request_GET,     \* require_query_params
    wrapped_response, func_calls,
    handler, GET, env, effects, outcome,        \* one request to a handler
    pc, emails, idx, results                    \* students_update_enrollment

splitVars   == <<str_list, new_list>>
mskVars     == <<course_id, urlname, module_state_key>>
paramVars   == <<required_params, declared, request_GET, wrapped_response, func_calls>>
handlerVars == <<handler, GET, env, effects, outcome>>
enrollVars  == <<pc, emails, idx, results>>
vars        == <<splitVars, mskVars, paramVars, handlerVars, enrollVars>>

\* Value of a variable that the running specification does not use.
Idle == "idle"

\* The variables of the parts a specification leaves out.
IdleSplit == str_list = Idle /\ new_list = Idle

IdleMsk == course_id = Idle /\ urlname = Idle /\ module_state_key = Idle

IdleParams ==
    /\ required_params = Idle /\ declared = Idle /\ request_GET = Idle
    /\ wrapped_response = Idle /\ func_calls = Idle

IdleHandlers ==
    /\ handler = Idle /\ GET = Idle /\ env = Idle /\ effects = Idle /\ outcome = Idle
    /\ pc = Idle /\ emails = Idle /\ idx = Idle /\ results = Idle

(***************************************************************************)
(* Generic helpers                                                         *)
(***************************************************************************)

\* A value not yet computed is None, a computed value v is Some(v).
None == <<>>

Some(v) == <<v>>

\* All sequences over S of length 0..n.
SeqsUpTo(S, n) == UNION {[1..k -> S] : k \in 0..n}

\* Python s[i:j] with 0-based, already normalised bounds 0 <= i <= j <= len.
Slice(s, i, j) == [k \in 1..(j - i) |-> s[i + k]]

(***************************************************************************)
(* _split_input_list                                                       *)
(***************************************************************************)

\* U+00A0: whitespace for unicode.strip(), not matched by \s without re.UNICODE.
NBSP == "NBSP"

\* U+000B, vertical tab.
VT == "VT"

\* Longest input string of _split_input_list.
MaxStrLen == 4

\* Characters of the input strings.
SplitChars == {"a", "b", ",", " ", "\n", "\r", "\t", NBSP}

\* The characters matched by the pattern r'[\n\r\s,]'.
SplitPattern == {"\n", "\r", " ", "\t", "\f", VT, ","}

\* The characters removed by s.strip().
Whitespace == {" ", "\t", "\n", "\r", "\f", VT, NBSP}

\* re.split(r'[\n\r\s,]', s): one piece between any two matches, empty pieces kept.
ReSplit(s) ==
    LET P[i \in 0..Len(s)] ==
            IF i = 0 THEN << <<>> >>
            ELSE IF s[i] \in SplitPattern THEN Append(P[i - 1], <<>>)
            ELSE [P[i - 1] EXCEPT ![Len(P[i - 1])] = Append(@, s[i])]
    IN  P[Len(s)]

RECURSIVE LStrip(_)
LStrip(s) == IF s # <<>> /\ Head(s) \in Whitespace THEN LStrip(Tail(s)) ELSE s

RECURSIVE RStrip(_)
RStrip(s) ==
    IF s # <<>> /\ s[Len(s)] \in Whitespace THEN RStrip(SubSeq(s, 1, Len(s) - 1)) ELSE s

\* s.strip()
Strip(s) == RStrip(LStrip(s))

NotEmpty(s) == s # <<>>

\* The function with the last line (the filter of empty strings) left out.
split_input_list_KeepEmpty(s) ==
    LET pieces == ReSplit(s)
    IN  [k \in 1..Len(pieces) |-> Strip(pieces[k])]

split_input_list(s) ==
    LET pieces   == ReSplit(s)
        stripped == [k \in 1..Len(pieces) |-> Strip(pieces[k])]
    IN  SelectSeq(stripped, NotEmpty)

InitSplit ==
    /\ str_list \in SeqsUpTo(SplitChars, MaxStrLen)
    /\ new_list = None
    /\ IdleMsk /\ IdleParams /\ IdleHandlers

SplitCall ==
    /\ new_list = None
    /\ new_list' = Some(split_input_list(str_list))
    /\ UNCHANGED <<str_list, mskVars, paramVars, handlerVars, enrollVars>>

NextSplit == SplitCall

SpecSplit == InitSplit /\ [][NextSplit]_vars

\* ---- C7 ----

\* The i of the tokens of s for a delimiter set D: where a token starts.
TokenStarts(s, D) == {i \in 1..Len(s) : s[i] \notin D /\ (i = 1 \/ s[i - 1] \in D)}

TokenEnd(s, D, i) ==
    CHOOSE j \in i..Len(s) :
        (\A k \in i..j : s[k] \notin D) /\ (j = Len(s) \/ s[j + 1] \in D)

\* The maximal substrings of s without a character of D, left to right.
MaximalTokens(s, D) ==
    LET starts == TokenStarts(s, D)
        kth(k) == CHOOSE i \in starts : Cardinality({j \in starts : j < i}) = k - 1
    IN  [k \in 1..Cardinality(starts) |-> Slice(s, kth(k) - 1, TokenEnd(s, D, kth(k)))]

\* t without its leading and trailing whitespace, by position.
Trimmed(t) ==
    LET solid == {i \in 1..Len(t) : t[i] \notin Whitespace}
    IN  IF solid = {} THEN <<>>
        ELSE LET lo == CHOOSE i \in solid : \A j \in solid : i <= j
                 hi == CHOOSE i \in solid : \A j \in solid : j <= i
             IN  Slice(t, lo - 1, hi)

TrimmedTokens(s, D) ==
    LET toks == MaximalTokens(s, D)
    IN  SelectSeq([k \in 1..Len(toks) |-> Trimmed(toks[k])], NotEmpty)

\* What every returned token must look like, for a delimiter set D.
CleanTokens(list, D) ==
    \A k \in 1..Len(list) :
        /\ list[k] # <<>>
        /\ \A i \in 1..Len(list[k]) : list[k][i] \notin D
        /\ list[k][1] \notin Whitespace
        /\ list[k][Len(list[k])] \notin Whitespace

\* The delimiters the claim names: comma, space, newline, carriage return.
ClaimDelimiters == {",", " ", "\n", "\r"}

\* The delimiters of the amended claim: comma and every character \s matches.
AmendedDelimiters == {",", " ", "\n", "\r", "\t", "\f", VT}

\* C7 as stated: the result is the sequence of the maximal substrings of the
\* input free of comma, space, newline and carriage return, in order, each
\* non-empty, delimiter-free and without leading or trailing whitespace.
C7_Original ==
    new_list # None =>
        /\ new_list[1] = MaximalTokens(str_list, ClaimDelimiters)
        /\ CleanTokens(new_list[1], ClaimDelimiters)

\* C7 amended: the result is the sequence of the maximal substrings of the
\* input free of comma and of the whitespace \s matches (space, tab, newline,
\* carriage return, form feed, vertical tab), in order, each stripped of
\* leading and trailing whitespace and dropped when that leaves it empty;
\* every token is non-empty, delimiter-free and trimmed, repeats are kept.
C7_SplitTokens ==
    new_list # None =>
        /\ new_list[1] = TrimmedTokens(str_list, AmendedDelimiters)
        /\ CleanTokens(new_list[1], AmendedDelimiters)

\* A run of two delimiters, one of them a tab, between a repeated token.
C7_Witness ==
    /\ new_list # None
    /\ Len(new_list[1]) = 2
    /\ new_list[1][1] = new_list[1][2]
    /\ \E i \in 1..(Len(str_list) - 1) :
           /\ str_list[i] \in AmendedDelimiters
           /\ str_list[i + 1] \in AmendedDelimiters
           /\ "\t" \in {str_list[i], str_list[i + 1]}

(***************************************************************************)
(* _msk_from_problem_urlname                                               *)
(***************************************************************************)

\* Longest course id and longest problem urlname.
MaxCourseLen == 5

MaxUrlLen == 5

CourseChars == {"o", "/"}

UrlChars == {".", "x", "m", "l"}

CourseIds == SeqsUpTo(CourseChars, MaxCourseLen)

DotXml == <<".", "x", "m", "l">>

ProblemSlash == <<"p", "r", "o", "b", "l", "e", "m", "/">>

I4x == <<"i", "4", "x", ":", "/", "/">>

\* s.split(sep) for a one-character separator.
StrSplit(s, sep) ==
    LET P[i \in 0..Len(s)] ==
            IF i = 0 THEN << <<>> >>
            ELSE IF s[i] = sep THEN Append(P[i - 1], <<>>)
            ELSE [P[i - 1] EXCEPT ![Len(P[i - 1])] = Append(@, s[i])]
    IN  P[Len(s)]

\* s[-n:]
LastN(s, n) == IF Len(s) <= n THEN s ELSE Slice(s, Len(s) - n, Len(s))

\* s[:-n]
DropLastN(s, n) == IF Len(s) <= n THEN <<>> ELSE Slice(s, 0, Len(s) - n)

Returned(v) == [raised |-> FALSE, value |-> v]

\* The tuple unpacking of a split that has not exactly three parts.
ValueError == [raised |-> TRUE, value |-> <<>>]

\* The function with urlname[:-3] in place of urlname[:-4].
msk_from_problem_urlname_OffByOne(c_id, name) ==
    LET stripped == IF LastN(name, 4) = DotXml THEN DropLastN(name, 3) ELSE name
        parts    == StrSplit(c_id, "/")
    IN  IF Len(parts) # 3 THEN ValueError
        ELSE Returned(I4x \o parts[1] \o <<"/">> \o parts[2] \o <<"/">>
                          \o ProblemSlash \o stripped)

msk_from_problem_urlname(c_id, name) ==
    LET stripped == IF LastN(name, 4) = DotXml THEN DropLastN(name, 4) ELSE name
        parts    == StrSplit(c_id, "/")
    IN  IF Len(parts) # 3 THEN ValueError
        ELSE Returned(I4x \o parts[1] \o <<"/">> \o parts[2] \o <<"/">>
                          \o ProblemSlash \o stripped)

InitMsk ==
    /\ course_id \in CourseIds
    /\ urlname \in SeqsUpTo(UrlChars, MaxUrlLen)
    /\ module_state_key = None
    /\ IdleSplit /\ IdleParams /\ IdleHandlers

MskCall ==
    /\ module_state_key = None
    /\ module_state_key' = Some(msk_from_problem_urlname(course_id, urlname))
    /\ UNCHANGED <<course_id, urlname, splitVars, paramVars, handlerVars, enrollVars>>

NextMsk == MskCall

SpecMsk == InitMsk /\ [][NextMsk]_vars

\* ---- C8 ----

SlashesOf(c) == {i \in 1..Len(c) : c[i] = "/"}

\* c has the form org/course/run.
OrgCourseRun(c) == Cardinality(SlashesOf(c)) = 2

FirstSlash(c) == CHOOSE i \in SlashesOf(c) : \A j \in SlashesOf(c) : i <= j

LastSlash(c) == CHOOSE i \in SlashesOf(c) : \A j \in SlashesOf(c) : j <= i

OrgOf(c) == Slice(c, 0, FirstSlash(c) - 1)

CourseOf(c) == Slice(c, FirstSlash(c), LastSlash(c) - 1)

RunOf(c) == Slice(c, LastSlash(c), Len(c))

HasXmlSuffix(u) == \E n \in 0..Len(u) : u = Slice(u, 0, n) \o DotXml

\* u with one trailing ".xml" removed if present.
NameOf(u) == IF HasXmlSuffix(u) THEN CHOOSE n \in SeqsUpTo(UrlChars, Len(u)) : u = n \o DotXml ELSE u

\* C8: for a course id org/course/run the key is
\* "i4x://" + org + "/" + course + "/problem/" + name, name being the urlname
\* without one trailing ".xml"; every course id with the same org and course
\* gives the same key, and a urlname without the suffix gives the same key
\* as that urlname with ".xml" appended.
C8_ModuleStateKey ==
    (module_state_key # None /\ OrgCourseRun(course_id)) =>
        /\ module_state_key[1] =
               Returned(I4x \o OrgOf(course_id) \o <<"/">> \o CourseOf(course_id)
                            \o <<"/">> \o ProblemSlash \o NameOf(urlname))
        /\ \A c2 \in CourseIds :
               (OrgCourseRun(c2) /\ OrgOf(c2) = OrgOf(course_id)
                                 /\ CourseOf(c2) = CourseOf(course_id))
                   => msk_from_problem_urlname(c2, urlname) = module_state_key[1]
        /\ ~HasXmlSuffix(urlname) =>
               msk_from_problem_urlname(course_id, urlname \o DotXml) = module_state_key[1]

\* The key of a urlname "?.xml" in a course with three non-empty components.
C8_Witness ==
    /\ module_state_key # None
    /\ OrgCourseRun(course_id)
    /\ OrgOf(course_id) # <<>> /\ CourseOf(course_id) # <<>> /\ RunOf(course_id) # <<>>
    /\ HasXmlSuffix(urlname) /\ Len(urlname) > 4
    /\ ~module_state_key[1].raised

(***************************************************************************)
(* Responses                                                               *)
(***************************************************************************)

\* The body of a response: text (possibly empty) or a JSON document.
Text(t) == [kind |-> "text", text |-> t]

Json(data) == [kind |-> "json", data |-> data]

\* HttpResponse(...): status 200.
HttpResponse(body) == [status |-> 200, body |-> body]

\* HttpResponseBadRequest(...): status 400; without argument the body is empty.
HttpResponseBadRequest(body) == [status |-> 400, body |-> body]

(***************************************************************************)
(* require_query_params                                                    *)
(***************************************************************************)

\* Most positional and most keyword names on one decorator.
MaxArgs == 2

MaxKwargs == 2

\* The parameter names a decorator may declare and a query may carry.
ParamNames == {"p", "q", "r"}

\* The values a query parameter may have; "" is present but empty.
ParamValues == {"", "v"}

\* The explanation given with a keyword name.
Explanation(key) == "about " \o key

\* The extra of a positional name.
PyNone == "None"

\* default = object(): equal to no query value.
DefaultObject == "object()"

Injective(f) == \A i, j \in DOMAIN f : f[i] = f[j] => i = j

\* The orders in which a dict of n keys may be iterated.
DictOrders(n) == {f \in [1..n -> 1..n] : Injective(f)}

\* A decorator as written: positional names, then keyword names, each with
\* its explanation (no keyword twice).
Decorators ==
    {[args |-> a, kwargs |-> [i \in 1..Len(k) |-> <<k[i], Explanation(k[i])>>]] :
        a \in SeqsUpTo(ParamNames, MaxArgs),
        k \in {s \in SeqsUpTo(ParamNames, MaxKwargs) : Injective(s)}}

\* required_params for a decorator d whose kwargs dict iterates in order ord.
RequiredParams(d, ord) ==
    [i \in 1..Len(d.args) |-> <<d.args[i], PyNone>>]
        \o [i \in 1..Len(d.kwargs) |-> d.kwargs[ord[i]]]

\* request.GET.get(param, default)
QueryGet(query, param, default) == IF param \in DOMAIN query THEN query[param] ELSE default

\* The test with `not request.GET.get(param)` in place of the sentinel.
IsMissing_Falsy(query, param) == QueryGet(query, param, DefaultObject) \in {DefaultObject, ""}

\* request.GET.get(param, default) == default
IsMissing(query, param) == QueryGet(query, param, DefaultObject) = DefaultObject

\* error_response_data after the loop over required: parameters and info.
ErrorResponseData(required, query) ==
    LET Scan[i \in 0..Len(required)] ==
            IF i = 0 THEN [parameters |-> <<>>, info |-> <<>>]
            ELSE IF IsMissing(query, required[i][1])
                 THEN [parameters |-> Append(Scan[i - 1].parameters, required[i][1]),
                       info |-> (required[i][1] :> required[i][2]) @@ Scan[i - 1].info]
                 ELSE Scan[i - 1]
    IN  [error |-> "Missing required query parameter(s)",
         parameters |-> Scan[Len(required)].parameters,
         info |-> Scan[Len(required)].info]

\* wrapped(request): TRUE when func is to be called.
ParamsPass(required, query) == Len(ErrorResponseData(required, query).parameters) = 0

MissingResponse(required, query) ==
    HttpResponseBadRequest(Json(ErrorResponseData(required, query)))

\* All query dictionaries over a set of names.
Queries(names) == UNION {[keys -> ParamValues] : keys \in SUBSET names}

\* The response of the wrapped func of this specification.
FuncResponse == HttpResponse(Text("func"))

InitParams ==
    /\ declared \in Decorators
    /\ \E ord \in DictOrders(Len(declared.kwargs)) :
           required_params = RequiredParams(declared, ord)
    /\ request_GET = None
    /\ wrapped_response = None
    /\ func_calls = <<>>
    /\ IdleSplit /\ IdleMsk /\ IdleHandlers

\* One request through wrapped().
Wrapped ==
    /\ request_GET = None
    /\ \E query \in Queries(ParamNames) :
           /\ request_GET' = Some(query)
           /\ IF ParamsPass(required_params, query)
              THEN /\ func_calls' = Append(func_calls, query)
                   /\ wrapped_response' = Some(FuncResponse)
              ELSE /\ func_calls' = func_calls
                   /\ wrapped_response' = Some(MissingResponse(required_params, query))
    /\ UNCHANGED <<required_params, declared, splitVars, mskVars, handlerVars, enrollVars>>

NextParams == Wrapped

SpecParams == InitParams /\ [][NextParams]_vars

\* ---- C1 ----

\* The names written on the decorator, in the order written.
DeclaredOrder == declared.args \o [i \in 1..Len(declared.kwargs) |-> declared.kwargs[i][1]]

DeclaredNames == {DeclaredOrder[i] : i \in 1..Len(DeclaredOrder)}

\* C1: func is invoked (once, with the request) iff every declared name is a
\* key of the query, whatever its value; otherwise func is not invoked and
\* the response is a 400.
C1_InvokedIffPresent ==
    wrapped_response # None =>
        IF DeclaredNames \subseteq DOMAIN request_GET[1]
        THEN func_calls = <<request_GET[1]>> /\ wrapped_response[1] = FuncResponse
        ELSE func_calls = <<>> /\ wrapped_response[1].status = 400

\* A declared name present with an empty value, and func invoked.
C1_Witness ==
    /\ wrapped_response # None
    /\ func_calls # <<>>
    /\ \E n \in DeclaredNames : request_GET[1][n] = ""

\* ---- C2 ----

Absent(name) == name \notin DOMAIN request_GET[1]

\* C2: the parameters list of a 400 is the declared names that are absent
\* from the query, each once, in the order written on the decorator.
C2_DeclarationOrder ==
    (wrapped_response # None /\ wrapped_response[1].status = 400) =>
        wrapped_response[1].body.data.parameters = SelectSeq(DeclaredOrder, Absent)

(***************************************************************************)
(* Requests to the handlers                                                *)
(***************************************************************************)

\* Longest text of the emails parameter.
MaxEmailsLen == 5

EmailChars == {"a", "b", ","}

\* The user emails a query may name; env.users are those that exist.
UserEmails == {"u@x", "w@x"}

CourseRoles == {"instructor", "staff", "beta"}

\* FORUM_ROLE_ADMINISTRATOR, FORUM_ROLE_MODERATOR, FORUM_ROLE_COMMUNITY_TA
ForumRoles == {"Administrator", "Moderator", "Community TA"}

\* The course of the request, as a string of characters.
RequestCourseId == <<"o", "/", "c", "/", "r">>

\* A problem urlname as a string of characters.
Chars(name) ==
    CASE name = "x"     -> <<"x">>
      [] name = "x.xml" -> <<"x", ".", "x", "m", "l">>
      [] OTHER          -> <<>>

\* The values a query may give to a parameter.
ParamDomain(name) ==
    CASE name = "action"          -> {"enroll", "unenroll", "bogus"}
      [] name = "emails"          -> {<<>> \o t : t \in SeqsUpTo(EmailChars, MaxEmailsLen)}
      [] name = "auto_enroll"     -> {"true", "false"}
      [] name = "rolename"        -> CourseRoles \cup ForumRoles \cup {"bogus"}
      [] name = "mode"            -> {"allow", "revoke", "bogus"}
      [] name = "problem_to_reset" -> {"", "x", "x.xml"}
      [] name \in {"all_students", "delete_module"} -> {"true", "True", "false"}
      [] OTHER                    -> UserEmails \cup {""}

\* All query dictionaries with keys among names.
RECURSIVE QueriesOf(_)
QueriesOf(names) ==
    IF names = {} THEN {<<>>}
    ELSE LET k    == CHOOSE n \in names : TRUE
             rest == QueriesOf(names \ {k})
         IN  rest \cup {(k :> v) @@ q : v \in ParamDomain(k), q \in rest}

\* The query parameters each handler reads.
HandlerParams ==
    [students_update_enrollment   |-> {"action", "emails", "auto_enroll"},
     access_allow_revoke          |-> {"email", "rolename", "mode"},
     list_course_role_members     |-> {"rolename"},
     redirect_to_student_progress |-> {"student_email"},
     reset_student_attempts       |-> {"problem_to_reset", "student_email",
                                       "all_students", "delete_module"},
     rescore_problem              |-> {"problem_to_reset", "student_email", "all_students"},
     list_forum_members           |-> {"rolename"},
     update_forum_role_membership |-> {"email", "rolename", "mode"}]

\* The @require_query_params(...) written on the handlers that have one.
HandlerDecorator ==
    [students_update_enrollment |->
        [args |-> <<>>,
         kwargs |-> << <<"action", "enroll or unenroll">>,
                       <<"emails", "stringified list of emails">> >>],
     access_allow_revoke |->
        [args |-> <<>>,
         kwargs |-> << <<"email", "user email">>,
                       <<"rolename", "'instructor', 'staff', or 'beta'">>,
                       <<"mode", "'allow' or 'revoke'">> >>],
     list_course_role_members |->
        [args |-> <<>>,
         kwargs |-> << <<"rolename", "'instructor', 'staff', or 'beta'">> >>],
     redirect_to_student_progress |->
        [args |-> <<>>, kwargs |-> << <<"student_email", "student email">> >>]]

\* The required_params the decorator of handler h may have built: its kwargs
\* dict is iterated in an order the interpreter chooses.  A handler without
\* the decorator has none.
RequiredOf(h) ==
    IF h \in DOMAIN HandlerDecorator
    THEN {RequiredParams(HandlerDecorator[h], ord) :
              ord \in DictOrders(Len(HandlerDecorator[h].kwargs))}
    ELSE {<<>>}

\* What the collaborators answer during the request: whether
\* get_course_with_access grants access, which users exist, whether the
\* student's module and the forum role exist.
Envs ==
    [access : BOOLEAN, users : SUBSET UserEmails, module : BOOLEAN, role : BOOLEAN]

\* The collaborators' answers that a handler h depends on.
EnvsOf(h) ==
    {e \in Envs :
        /\ h \in {"students_update_enrollment", "list_course_role_members"}
               => e.users = {}
        /\ h # "reset_student_attempts" => e.module
        /\ h \notin {"list_forum_members", "update_forum_role_membership"} => e.role}

\* A handler's result: the collaborator calls it made, in order, and either
\* the response it returned or the exception it let through.
NoResponse == [status |-> 0, body |-> Text("")]

Done(eff, resp) == [effects |-> eff, raised |-> FALSE, exc |-> "", resp |-> resp]

Raised(eff, e) == [effects |-> eff, raised |-> TRUE, exc |-> e, resp |-> NoResponse]

\* get_course_with_access(request.user, course_id, level, depth=None)
CourseLookup(level) == [op |-> "get_course_with_access", level |-> level]

\* User.objects.get(email=email)
UserGet(email) == [op |-> "User.objects.get", email |-> email]

\* A value Python treats as true: not None, not False, not the empty string.
PyFalse == "False"

Truthy(v) == v \notin {PyNone, PyFalse, ""}

\* request.GET.get(name, default) in ['true', 'True', True]
Flag(query, name) == QueryGet(query, name, PyFalse) \in {"true", "True"}

\* common_exceptions_400(func): wrapped(*args, **kwargs)
common_exceptions_400(r) ==
    IF r.raised /\ r.exc = "User.DoesNotExist"
    THEN Done(r.effects, HttpResponseBadRequest(Text("User does not exist.")))
    ELSE r

\* require_query_params(...)(func): wrapped(request, ...) around the result r of func.
require_query_params(required, query, r) ==
    IF ParamsPass(required, query) THEN r ELSE Done(<<>>, MissingResponse(required, query))

\* access_allow_revoke with the role change made before the user is looked up.
access_allow_revoke_body_GrantFirst(query, e) ==
    LET email    == QueryGet(query, "email", PyNone)
        rolename == QueryGet(query, "rolename", PyNone)
        mode     == QueryGet(query, "mode", PyNone)
        course   == <<CourseLookup("instructor")>>
        change   == <<[op |-> IF mode = "allow" THEN "allow_access" ELSE "revoke_access",
                       user |-> email, rolename |-> rolename]>>
    IN  IF ~e.access THEN Raised(course, "Http404")
        ELSE IF mode \notin {"allow", "revoke"} THEN Raised(course, "ValueError")
        ELSE IF email \notin e.users
             THEN Raised(course \o change \o <<UserGet(email)>>, "User.DoesNotExist")
        ELSE Done(course \o change \o <<UserGet(email)>>, HttpResponse(Json([DONE |-> "YES"])))

access_allow_revoke_body(query, e) ==
    LET email    == QueryGet(query, "email", PyNone)
        rolename == QueryGet(query, "rolename", PyNone)
        mode     == QueryGet(query, "mode", PyNone)
        course   == <<CourseLookup("instructor")>>
        user     == course \o <<UserGet(email)>>
    IN  IF ~e.access THEN Raised(course, "Http404")
        ELSE IF email \notin e.users THEN Raised(user, "User.DoesNotExist")
        ELSE IF mode = "allow"
             THEN Done(user \o <<[op |-> "allow_access", user |-> email, rolename |-> rolename]>>,
                       HttpResponse(Json([DONE |-> "YES"])))
        ELSE IF mode = "revoke"
             THEN Done(user \o <<[op |-> "revoke_access", user |-> email, rolename |-> rolename]>>,
                       HttpResponse(Json([DONE |-> "YES"])))
        ELSE Raised(user, "ValueError")

access_allow_revoke_view(required, query, e) ==
    common_exceptions_400(
        require_query_params(required, query, access_allow_revoke_body(query, e)))

list_course_role_members_body(query, e) ==
    LET rolename == QueryGet(query, "rolename", PyNone)
        course   == <<CourseLookup("staff")>>
    IN  IF ~e.access THEN Raised(course, "Http404")
        ELSE IF rolename \notin CourseRoles THEN Done(course, HttpResponseBadRequest(Text("")))
        ELSE Done(course \o <<[op |-> "list_with_level", level |-> rolename]>>,
                  HttpResponse(Json([course_id |-> RequestCourseId, role |-> rolename])))

list_course_role_members_view(required, query, e) ==
    require_query_params(required, query, list_course_role_members_body(query, e))

redirect_to_student_progress_body(query, e) ==
    LET student_email == QueryGet(query, "student_email", PyNone)
        course        == <<CourseLookup("staff")>>
        user          == course \o <<UserGet(student_email)>>
    IN  IF ~e.access THEN Raised(course, "Http404")
        ELSE IF student_email \notin e.users THEN Raised(user, "User.DoesNotExist")
        ELSE Done(user, HttpResponse(Json([course_id |-> RequestCourseId,
                                           progress_url |-> student_email])))

redirect_to_student_progress_view(required, query, e) ==
    common_exceptions_400(
        require_query_params(required, query, redirect_to_student_progress_body(query, e)))

\* reset_student_attempts without the refusal of delete_module together with
\* all_students.
reset_student_attempts_body_NoDeleteAllCheck(query, e) ==
    LET problem_to_reset   == QueryGet(query, "problem_to_reset", PyNone)
        student_email      == QueryGet(query, "student_email", PyNone)
        all_students       == Flag(query, "all_students")
        will_delete_module == Flag(query, "delete_module")
        key                == msk_from_problem_urlname(RequestCourseId, Chars(problem_to_reset))
        course             == <<CourseLookup("staff")>>
        user               == course \o <<UserGet(student_email)>>
    IN  IF ~e.access THEN Raised(course, "Http404")
        ELSE IF ~(Truthy(problem_to_reset) /\ (all_students \/ Truthy(student_email)))
             THEN Done(course, HttpResponseBadRequest(Text("")))
        ELSE IF key.raised THEN Raised(course, "ValueError")
        ELSE IF Truthy(student_email)
             THEN IF student_email \notin e.users THEN Raised(user, "User.DoesNotExist")
                  ELSE LET reset == [op |-> "reset_student_attempts", student |-> student_email,
                                     module_state_key |-> key.value,
                                     delete_module |-> will_delete_module, found |-> e.module]
                       IN  IF ~e.module
                           THEN Done(user \o <<reset>>,
                                     HttpResponseBadRequest(Text("Module does not exist.")))
                           ELSE Done(user \o <<reset>>,
                                     HttpResponse(Json([problem_to_reset |-> problem_to_reset])))
        ELSE IF all_students
             THEN Done(course \o <<[op |-> "submit_reset_problem_attempts_for_all_students",
                                    module_state_key |-> key.value]>>,
                       HttpResponse(Json([problem_to_reset |-> problem_to_reset,
                                          task |-> "created"])))
        ELSE Done(course, HttpResponseBadRequest(Text("")))

reset_student_attempts_body(query, e) ==
    LET problem_to_reset  == QueryGet(query, "problem_to_reset", PyNone)
        student_email      == QueryGet(query, "student_email", PyNone)
        all_students       == Flag(query, "all_students")
        will_delete_module == Flag(query, "delete_module")
        key                == msk_from_problem_urlname(RequestCourseId, Chars(problem_to_reset))
        course             == <<CourseLookup("staff")>>
        user               == course \o <<UserGet(student_email)>>
    IN  IF ~e.access THEN Raised(course, "Http404")
        ELSE IF ~(Truthy(problem_to_reset) /\ (all_students \/ Truthy(student_email)))
             THEN Done(course, HttpResponseBadRequest(Text("")))
        ELSE IF will_delete_module /\ all_students
             THEN Done(course, HttpResponseBadRequest(Text("")))
        ELSE IF key.raised THEN Raised(course, "ValueError")
        ELSE IF Truthy(student_email)
             THEN IF student_email \notin e.users THEN Raised(user, "User.DoesNotExist")
                  ELSE LET reset == [op |-> "reset_student_attempts", student |-> student_email,
                                     module_state_key |-> key.value,
                                     delete_module |-> will_delete_module, found |-> e.module]
                       IN  IF ~e.module
                           THEN Done(user \o <<reset>>,
                                     HttpResponseBadRequest(Text("Module does not exist.")))
                           ELSE Done(user \o <<reset>>,
                                     HttpResponse(Json([problem_to_reset |-> problem_to_reset])))
        ELSE IF all_students
             THEN Done(course \o <<[op |-> "submit_reset_problem_attempts_for_all_students",
                                    module_state_key |-> key.value]>>,
                       HttpResponse(Json([problem_to_reset |-> problem_to_reset,
                                          task |-> "created"])))
        ELSE Done(course, HttpResponseBadRequest(Text("")))

reset_student_attempts_view(query, e) ==
    common_exceptions_400(reset_student_attempts_body(query, e))

\* rescore_problem with the two branches in the other order: all_students
\* is looked at before student_email.
rescore_problem_body_AllStudentsFirst(query, e) ==
    LET problem_to_reset == QueryGet(query, "problem_to_reset", PyNone)
        student_email    == QueryGet(query, "student_email", PyFalse)
        all_students     == Flag(query, "all_students")
        key              == msk_from_problem_urlname(RequestCourseId, Chars(problem_to_reset))
        course           == <<CourseLookup("staff")>>
        user             == course \o <<UserGet(student_email)>>
    IN  IF ~e.access THEN Raised(course, "Http404")
        ELSE IF ~(Truthy(problem_to_reset) /\ (all_students \/ Truthy(student_email)))
             THEN Done(course, HttpResponseBadRequest(Text("")))
        ELSE IF key.raised THEN Raised(course, "ValueError")
        ELSE IF all_students
             THEN Done(course \o <<[op |-> "submit_rescore_problem_for_all_students",
                                    module_state_key |-> key.value]>>,
                       HttpResponse(Json([problem_to_reset |-> problem_to_reset,
                                          task |-> "created"])))
        ELSE IF student_email \notin e.users THEN Raised(user, "User.DoesNotExist")
        ELSE Done(user \o <<[op |-> "submit_rescore_problem_for_student",
                             module_state_key |-> key.value,
                             student |-> student_email]>>,
                  HttpResponse(Json([problem_to_reset |-> problem_to_reset,
                                     student_email |-> student_email,
                                     task |-> "created"])))

rescore_problem_body(query, e) ==
    LET problem_to_reset == QueryGet(query, "problem_to_reset", PyNone)
        student_email    == QueryGet(query, "student_email", PyFalse)
        all_students     == Flag(query, "all_students")
        key              == msk_from_problem_urlname(RequestCourseId, Chars(problem_to_reset))
        course           == <<CourseLookup("staff")>>
        user             == course \o <<UserGet(student_email)>>
    IN  IF ~e.access THEN Raised(course, "Http404")
        ELSE IF ~(Truthy(problem_to_reset) /\ (all_students \/ Truthy(student_email)))
             THEN Done(course, HttpResponseBadRequest(Text("")))
        ELSE IF key.raised THEN Raised(course, "ValueError")
        ELSE IF Truthy(student_email)
             THEN IF student_email \notin e.users THEN Raised(user, "User.DoesNotExist")
                  ELSE Done(user \o <<[op |-> "submit_rescore_problem_for_student",
                                       module_state_key |-> key.value,
                                       student |-> student_email]>>,
                            HttpResponse(Json([problem_to_reset |-> problem_to_reset,
                                               student_email |-> student_email,
                                               task |-> "created"])))
        ELSE IF all_students
             THEN Done(course \o <<[op |-> "submit_rescore_problem_for_all_students",
                                    module_state_key |-> key.value]>>,
                       HttpResponse(Json([problem_to_reset |-> problem_to_reset,
                                          task |-> "created"])))
        ELSE Done(course, HttpResponseBadRequest(Text("")))

rescore_problem_view(query, e) ==
    common_exceptions_400(rescore_problem_body(query, e))

list_forum_members_view(query, e) ==
    LET rolename == QueryGet(query, "rolename", PyNone)
        course   == <<CourseLookup("staff")>>
    IN  IF ~e.access THEN Raised(course, "Http404")
        ELSE IF rolename \notin ForumRoles THEN Done(course, HttpResponseBadRequest(Text("")))
        ELSE Done(course \o <<[op |-> "Role.objects.get", name |-> rolename, found |-> e.role]>>,
                  HttpResponse(Json([course_id |-> RequestCourseId, role |-> rolename])))

update_forum_role_membership_body(query, e) ==
    LET email    == QueryGet(query, "email", PyNone)
        rolename == QueryGet(query, "rolename", PyNone)
        mode     == QueryGet(query, "mode", PyNone)
        course   == <<CourseLookup("instructor")>>
        user     == course \o <<UserGet(email)>>
        update   == [op |-> "update_forum_role_membership", user |-> email,
                     rolename |-> rolename, mode |-> mode, found |-> e.role]
    IN  IF ~e.access THEN Raised(course, "Http404")
        ELSE IF rolename \notin ForumRoles THEN Done(course, HttpResponseBadRequest(Text("")))
        ELSE IF email \notin e.users THEN Raised(user, "User.DoesNotExist")
        ELSE IF ~e.role
             THEN Done(user \o <<update>>, HttpResponseBadRequest(Text("Role does not exist.")))
        ELSE Done(user \o <<update>>,
                  HttpResponse(Json([course_id |-> RequestCourseId, mode |-> mode, DONE |-> "YES"])))

update_forum_role_membership_view(query, e) ==
    common_exceptions_400(update_forum_role_membership_body(query, e))

(***************************************************************************)
(* students_update_enrollment                                              *)
(***************************************************************************)

\* The enrollment states a snapshot may show.
Snapshots == {"out", "in"}

\* What one call of enroll_email / unenroll_email followed by the two
\* to_dict() calls may do: the call raises, or it returns (before, after)
\* and the snapshots serialize, or it returns and a to_dict() raises.
FuncOutcomes ==
    [raises : {FALSE}, before : Snapshots, after : Snapshots, to_dict_raises : BOOLEAN]
        \cup {[raises |-> TRUE, before |-> "out", after |-> "out", to_dict_raises |-> FALSE]}

\* EmailEnrollmentState.to_dict()
ToDict(snapshot) == [enrollment |-> snapshot]

\* format_result with the exception text added to the error record.
format_result_WithMessage(o, email) ==
    IF o.raises \/ o.to_dict_raises
    THEN [email |-> email, error |-> TRUE, message |-> "enrollment failed"]
    ELSE [email |-> email, before |-> ToDict(o.before), after |-> ToDict(o.after)]

\* format_result(func, email), o being what func() and to_dict() do.
format_result(o, email) ==
    IF o.raises \/ o.to_dict_raises
    THEN [email |-> email, error |-> TRUE]
    ELSE [email |-> email, before |-> ToDict(o.before), after |-> ToDict(o.after)]

\* The list comprehension keeping only the records without error.
Collect_SkipErrors(list, record) ==
    IF "error" \in DOMAIN record THEN list ELSE Append(list, record)

\* The list comprehension: one record more.
Collect(list, record) == Append(list, record)

\* The comprehension ending at the first record with an error.
LastEmail_StopOnError(i, list, record) == i = Len(list) \/ "error" \in DOMAIN record

\* The comprehension ends with the last email.
LastEmail(i, list, record) == i = Len(list)

\* The response answering 400 when a record has an error.
EnrollmentResponse_FailOnError(act, res, auto) ==
    IF \E k \in 1..Len(res) : "error" \in DOMAIN res[k]
    THEN HttpResponseBadRequest(Json([action |-> act, results |-> res, auto_enroll |-> auto]))
    ELSE HttpResponse(Json([action |-> act, results |-> res, auto_enroll |-> auto]))

\* response_payload and the response built from it.
EnrollmentResponse(act, res, auto) ==
    HttpResponse(Json([action |-> act, results |-> res, auto_enroll |-> auto]))

\* The call made for one email.
EnrollCall(act, email, auto, o) ==
    IF act = "enroll"
    THEN [op |-> "enroll_email", email |-> email, auto_enroll |-> auto, result |-> o]
    ELSE [op |-> "unenroll_email", email |-> email, auto_enroll |-> FALSE, result |-> o]

Outcome(r) == Some([raised |-> r.raised, exc |-> r.exc, resp |-> r.resp])

NoLoop == pc' = "done" /\ idx' = 0 /\ results' = <<>>

\* The request arrives: the decorator, the course lookup, the parsing of the
\* parameters, and the branch on action.
students_update_enrollment ==
    /\ handler = "none"
    /\ \E query \in QueriesOf(HandlerParams.students_update_enrollment),
          e \in EnvsOf("students_update_enrollment"),
          required \in RequiredOf("students_update_enrollment") :
        LET course   == <<CourseLookup("staff")>>
            act      == QueryGet(query, "action", PyNone)
            auto     == Flag(query, "auto_enroll")
        IN  /\ handler' = "students_update_enrollment"
            /\ required_params' = required
            /\ GET' = query
            /\ env' = e
            /\ IF ~ParamsPass(required, query)
               THEN /\ effects' = <<>>
                    /\ outcome' = Outcome(Done(<<>>, MissingResponse(required, query)))
                    /\ emails' = <<>>
                    /\ NoLoop
               ELSE IF ~e.access
               THEN /\ effects' = course
                    /\ outcome' = Outcome(Raised(course, "Http404"))
                    /\ emails' = <<>>
                    /\ NoLoop
               ELSE /\ effects' = course
                    /\ emails' = split_input_list(query["emails"])
                    /\ IF act \notin {"enroll", "unenroll"}
                       THEN /\ outcome' = Outcome(Done(course, HttpResponseBadRequest(
                                              Text("Unrecognized action '" \o act \o "'"))))
                            /\ NoLoop
                       ELSE IF emails' = <<>>
                       THEN /\ outcome' = Outcome(Done(course, EnrollmentResponse(act, <<>>, auto)))
                            /\ NoLoop
                       ELSE /\ outcome' = None
                            /\ pc' = "loop" /\ idx' = 1 /\ results' = <<>>
    /\ UNCHANGED <<splitVars, mskVars, declared, request_GET, wrapped_response, func_calls>>

\* One email of the list comprehension; after the last one, the response.
format_result_step ==
    /\ pc = "loop"
    /\ \E o \in FuncOutcomes :
        LET act    == GET["action"]
            auto   == Flag(GET, "auto_enroll")
            record == format_result(o, emails[idx])
        IN  /\ effects' = Append(effects, EnrollCall(act, emails[idx], auto, o))
            /\ results' = Collect(results, record)
            /\ IF LastEmail(idx, emails, record)
               THEN /\ pc' = "done"
                    /\ idx' = idx
                    /\ outcome' = Outcome(Done(effects', EnrollmentResponse(act, results', auto)))
               ELSE /\ pc' = "loop"
                    /\ idx' = idx + 1
                    /\ outcome' = None
    /\ UNCHANGED <<handler, GET, env, emails, splitVars, mskVars, paramVars>>

(***************************************************************************)
(* One request to one of the other handlers                                *)
(***************************************************************************)

\* The request to handler h with query and the collaborators' answers e,
\* required being the required_params of its decorator.
View(h, required, query, e) ==
    CASE h = "access_allow_revoke" -> access_allow_revoke_view(required, query, e)
      [] h = "list_course_role_members" -> list_course_role_members_view(required, query, e)
      [] h = "redirect_to_student_progress" ->
             redirect_to_student_progress_view(required, query, e)
      [] h = "reset_student_attempts" -> reset_student_attempts_view(query, e)
      [] h = "rescore_problem" -> rescore_problem_view(query, e)
      [] h = "list_forum_members" -> list_forum_members_view(query, e)
      [] h = "update_forum_role_membership" -> update_forum_role_membership_view(query, e)

Request(h) ==
    /\ handler = "none"
    /\ \E query \in QueriesOf(HandlerParams[h]), e \in EnvsOf(h), required \in RequiredOf(h) :
        LET r == View(h, required, query, e)
        IN  /\ handler' = h
            /\ required_params' = required
            /\ GET' = query
            /\ env' = e
            /\ effects' = r.effects
            /\ outcome' = Outcome(r)
    /\ pc' = "done"
    /\ UNCHANGED <<emails, idx, results, splitVars, mskVars,
                   declared, request_GET, wrapped_response, func_calls>>

access_allow_revoke == Request("access_allow_revoke")

list_course_role_members == Request("list_course_role_members")

redirect_to_student_progress == Request("redirect_to_student_progress")

reset_student_attempts == Request("reset_student_attempts")

rescore_problem == Request("rescore_problem")

list_forum_members == Request("list_forum_members")

update_forum_role_membership == Request("update_forum_role_membership")

Init ==
    /\ required_params = <<>>
    /\ declared = HandlerDecorator
    /\ request_GET = None /\ wrapped_response = None /\ func_calls = <<>>
    /\ handler = "none" /\ GET = <<>> /\ env = <<>> /\ effects = <<>> /\ outcome = None
    /\ pc = "start" /\ emails = <<>> /\ idx = 0 /\ results = <<>>
    /\ IdleSplit /\ IdleMsk

Next ==
    \/ students_update_enrollment
    \/ format_result_step
    \/ access_allow_revoke
    \/ list_course_role_members
    \/ redirect_to_student_progress
    \/ reset_student_attempts
    \/ rescore_problem
    \/ list_forum_members
    \/ update_forum_role_membership

Spec == Init /\ [][Next]_vars

\* Every state is of the expected shape.
TypeOK ==
    /\ pc \in {"start", "loop", "done"}
    /\ pc = "loop" => idx \in 1..Len(emails) /\ Len(results) = idx - 1
    /\ (outcome = None) = (pc # "done")

(***************************************************************************)
(* Claims about the handlers                                               *)
(***************************************************************************)

Finished == pc = "done"

Raises == outcome[1].raised

Response == outcome[1].resp

\* The request passed the decorator and the course lookup of
\* students_update_enrollment, and its action is enroll or unenroll.
Enrolling ==
    /\ handler = "students_update_enrollment"
    /\ {"action", "emails"} \subseteq DOMAIN GET
    /\ env.access
    /\ GET["action"] \in {"enroll", "unenroll"}

\* The calls of enroll_email / unenroll_email made so far, in order.
EmailCalls == SelectSeq(effects, LAMBDA c : c.op \in {"enroll_email", "unenroll_email"})

\* The call failed: it raised, or a to_dict() of what it returned raised.
Failed(c) == c.result.raises \/ c.result.to_dict_raises

\* The results list of the response.
ResponseResults == Response.body.data.results

\* ---- C3 ----

\* C3: for a recognized action the response carries one record per email of
\* the input list, in input order: the list has the length of the input list
\* and record k carries email k, duplicates yielding one record each.
C3_OneRecordPerEmail ==
    (Enrolling /\ Finished) =>
        /\ ~Raises
        /\ Response.status = 200
        /\ Len(ResponseResults) = Len(emails)
        /\ \A k \in 1..Len(emails) : ResponseResults[k].email = emails[k]
        /\ emails = TrimmedTokens(GET["emails"], AmendedDelimiters)

\* Three emails, the first and the last the same, and a failure among them.
C3_Witness ==
    /\ Enrolling /\ Finished
    /\ Len(emails) = 3
    /\ emails[1] = emails[3]
    /\ \E k \in 1..3 : Failed(EmailCalls[k])
    /\ Len(ResponseResults) = 3

\* ---- C4 ----

\* C4: whichever items fail, every item whose call did not fail has a success
\* record with the before and after that its own call returned, and the
\* response is the normal 200 response.
C4_SiblingsUnaffected ==
    (Enrolling /\ Finished) =>
        /\ ~Raises
        /\ Response.status = 200
        /\ Response.body.kind = "json"
        /\ Len(EmailCalls) = Len(ResponseResults)
        /\ \A k \in 1..Len(ResponseResults) :
               ~Failed(EmailCalls[k]) =>
                   ResponseResults[k] =
                       [email |-> emails[k],
                        before |-> [enrollment |-> EmailCalls[k].result.before],
                        after |-> [enrollment |-> EmailCalls[k].result.after]]

\* The second of three items failed, and only that one.
C4_Witness ==
    /\ Enrolling /\ Finished
    /\ Len(EmailCalls) = 3
    /\ Failed(EmailCalls[2])
    /\ ~Failed(EmailCalls[1]) /\ ~Failed(EmailCalls[3])
    /\ EmailCalls[1].result.before # EmailCalls[3].result.before

\* ---- C5 ----

\* C5: an item whose call raised, or whose snapshots did not serialize, has
\* the record {email, error: true} and nothing else, and the request does not
\* raise; an item that succeeded has a record with exactly email, before, after.
C5_ErrorRecords ==
    (Enrolling /\ Finished) =>
        /\ ~Raises
        /\ Len(EmailCalls) = Len(ResponseResults)
        /\ \A k \in 1..Len(ResponseResults) :
               IF Failed(EmailCalls[k])
               THEN ResponseResults[k] = [email |-> emails[k], error |-> TRUE]
               ELSE DOMAIN ResponseResults[k] = {"email", "before", "after"}

\* One call raised, one to_dict() raised, one item succeeded.
C5_Witness ==
    /\ Enrolling /\ Finished
    /\ \E i, j, k \in 1..Len(EmailCalls) :
           /\ EmailCalls[i].result.raises
           /\ EmailCalls[j].result.to_dict_raises
           /\ ~Failed(EmailCalls[k])

\* ---- C6 ----

\* The number of emails acted on so far.
Acted == IF Finished THEN Len(emails) ELSE idx - 1

\* C6: at every moment of a request with a recognized action the calls made
\* so far are one call for each of the first emails of the input, in input
\* order, with the function of the action; when the response is built every
\* email has had its one call, also those after a failed call.
C6_OneCallPerEmailInOrder ==
    (Enrolling /\ pc \in {"loop", "done"}) =>
        /\ Len(EmailCalls) = Acted
        /\ \A k \in 1..Len(EmailCalls) :
               /\ EmailCalls[k].email = emails[k]
               /\ EmailCalls[k].op = IF GET["action"] = "enroll" THEN "enroll_email"
                                     ELSE "unenroll_email"

\* The first of three calls failed and the other two were still made.
C6_Witness ==
    /\ Enrolling /\ Finished
    /\ Len(emails) = 3
    /\ Len(EmailCalls) = 3
    /\ Failed(EmailCalls[1])
    /\ emails[2] # emails[3]

\* ---- C9 ----

Given(name) == name \in DOMAIN GET

\* The request reached the test of an enum-like parameter with a value the
\* handler does not recognize.
Unrecognized ==
    /\ Finished
    /\ env.access
    /\ CASE handler = "students_update_enrollment" ->
                {"action", "emails"} \subseteq DOMAIN GET
                    /\ GET["action"] \notin {"enroll", "unenroll"}
         [] handler = "access_allow_revoke" ->
                {"email", "rolename", "mode"} \subseteq DOMAIN GET
                    /\ GET["mode"] \notin {"allow", "revoke"}
         [] handler = "list_course_role_members" ->
                Given("rolename") /\ GET["rolename"] \notin CourseRoles
         [] handler \in {"list_forum_members", "update_forum_role_membership"} ->
                Given("rolename") /\ GET["rolename"] \notin ForumRoles
         [] OTHER -> FALSE

\* C9: an unrecognized action, mode or rolename gives a 400 response with a
\* message; no exception is let through and the body is not empty.
C9_UnrecognizedIs400WithMessage ==
    Unrecognized =>
        /\ ~Raises
        /\ Response.status = 400
        /\ Response.body.kind = "text"
        /\ Response.body.text # ""

\* ---- C10 ----

CommonExceptions400Handlers ==
    {"access_allow_revoke", "redirect_to_student_progress", "reset_student_attempts",
     "rescore_problem", "update_forum_role_membership"}

\* The handler looked a user up by email and there is no such user.
NoSuchUser ==
    \E i \in 1..Len(effects) :
        effects[i].op = "User.objects.get" /\ effects[i].email \notin env.users

\* C10: in a handler under common_exceptions_400, when the lookup by email
\* finds no user the response is 400 "User does not exist." and the request
\* made no call but the course lookup and the user lookup.
C10_NoUserIs400 ==
    (Finished /\ handler \in CommonExceptions400Handlers /\ NoSuchUser) =>
        /\ ~Raises
        /\ Response = HttpResponseBadRequest(Text("User does not exist."))
        /\ \A i \in 1..Len(effects) :
               effects[i].op \in {"get_course_with_access", "User.objects.get"}

\* A grant asked for a user that does not exist.
C10_Witness ==
    /\ Finished
    /\ handler = "access_allow_revoke"
    /\ NoSuchUser
    /\ GET["mode"] = "allow"

\* ---- C11 ----

\* The parameter is given and not empty.
NonEmpty(name) == Given(name) /\ GET[name] # ""

\* The parameter is given as 'true' or 'True'.
IsTrue(name) == Given(name) /\ GET[name] \in {"true", "True"}

\* A rescore_problem request that passed the course lookup.
Rescoring == Finished /\ handler = "rescore_problem" /\ env.access

\* The background tasks the request submitted, in order.
RescoreTasks ==
    SelectSeq(effects, LAMBDA c : c.op \in {"submit_rescore_problem_for_student",
                                            "submit_rescore_problem_for_all_students"})

AllStudentsRescoreSubmitted ==
    \E i \in 1..Len(RescoreTasks) :
        RescoreTasks[i].op = "submit_rescore_problem_for_all_students"

\* The one task of a request for a student: the rescore for that student.
OnlyStudentRescore ==
    /\ Len(RescoreTasks) = 1
    /\ RescoreTasks[1].op = "submit_rescore_problem_for_student"
    /\ RescoreTasks[1].student = GET["student_email"]

\* C11 as stated: with problem_to_reset and a non-empty student_email given,
\* exactly one task is submitted, the rescore for that student; the task for
\* all students is submitted only when student_email is absent or empty and
\* all_students is true.
C11_Original ==
    Rescoring =>
        /\ (NonEmpty("problem_to_reset") /\ NonEmpty("student_email")) => OnlyStudentRescore
        /\ AllStudentsRescoreSubmitted => (~NonEmpty("student_email") /\ IsTrue("all_students"))

\* C11 amended: with problem_to_reset and a non-empty student_email given,
\* all_students is ignored: if a user with that email exists exactly one task
\* is submitted, the rescore for that student, and if none exists no task is
\* submitted and the response is the 400 "User does not exist."; the task for
\* all students is submitted only when student_email is absent or empty and
\* all_students is true.
C11_StudentRescoreOnly ==
    Rescoring =>
        /\ (NonEmpty("problem_to_reset") /\ NonEmpty("student_email")) =>
               IF GET["student_email"] \in env.users
               THEN OnlyStudentRescore /\ ~Raises /\ Response.status = 200
               ELSE /\ RescoreTasks = <<>>
                    /\ ~Raises
                    /\ Response = HttpResponseBadRequest(Text("User does not exist."))
        /\ AllStudentsRescoreSubmitted =>
               /\ ~NonEmpty("student_email")
               /\ IsTrue("all_students")
               /\ Len(RescoreTasks) = 1

\* A rescore for an existing student asked together with all_students=true.
C11_Witness ==
    /\ Rescoring
    /\ NonEmpty("problem_to_reset") /\ NonEmpty("student_email")
    /\ GET["student_email"] \in env.users
    /\ IsTrue("all_students")
    /\ Len(RescoreTasks) = 1

\* ---- C12 ----

\* A reset_student_attempts request that passed the course lookup.
Resetting == Finished /\ handler = "reset_student_attempts" /\ env.access

\* The calls of the two operations the request made, in order: the reset of
\* one student's attempts and the submission of the task for all students.
ResetOps ==
    SelectSeq(effects, LAMBDA c : c.op \in {"reset_student_attempts",
                                            "submit_reset_problem_attempts_for_all_students"})

\* The requests the handler refuses: problem_to_reset absent or empty, or
\* neither a student_email nor a true all_students, or delete_module and
\* all_students both true.
ResetRefused ==
    \/ ~NonEmpty("problem_to_reset")
    \/ ~NonEmpty("student_email") /\ ~IsTrue("all_students")
    \/ IsTrue("delete_module") /\ IsTrue("all_students")

\* The refusal: an empty-body 400 and neither operation.
EmptyBadRequest ==
    /\ ~Raises
    /\ Response = HttpResponseBadRequest(Text(""))
    /\ ResetOps = <<>>

\* Exactly one of the two operations, the reset for the named student when
\* student_email is given and the task for all students otherwise.
OneResetOp ==
    /\ ~Raises
    /\ Len(ResetOps) = 1
    /\ IF NonEmpty("student_email")
       THEN /\ ResetOps[1].op = "reset_student_attempts"
            /\ ResetOps[1].student = GET["student_email"]
       ELSE ResetOps[1].op = "submit_reset_problem_attempts_for_all_students"

====
